---- MODULE Spec2Model ----
(***************************************************************************)
(* ProfileDots (interactive_dots.js): a canvas component that lays out a   *)
(* grid of dots, tracks the pointer and a list of time-stamped ripples,    *)
(* and repaints every animation frame.                                     *)
(*                                                                         *)
(* Numbers.  Lengths are kept in units of 1/SubPx pixel, so that the grid  *)
(* offset gridSpacing / 2 is an integer for odd spacings too.  Times are   *)
(* milliseconds (Date.now()).  An influence is kept as the numerator of a  *)
(* fraction with a fixed denominator (MouseDen, RippleDen), which is exact *)
(* for every input of the model except for Math.sqrt, which is rounded     *)
(* down to the length unit.                                                *)
(***************************************************************************)
EXTENDS Integers, Sequences, FiniteSets, TLC

\* Length unit: the divisor of `this.gridSpacing / 2`; lengths are in 1/SubPx px.
SubPx == 2

\* Program constants.
defaultGridSpacing == 20
maxDistance == 100
maxAge == 2000
rippleSpan == 150
rippleWidth == 40
rippleIntensity == 2
pruneAge == 3000
influenceCap == 2

\* Bounds of the model.
MaxRipples == 2
MaxFrames == 1
MaxSeconds == 3

Px(v) == v * SubPx

Abs(v) == IF v < 0 THEN 0 - v ELSE v
Max(a, b) == IF a >= b THEN a ELSE b
Min(a, b) == IF a <= b THEN a ELSE b

RECURSIVE GCD(_, _)
GCD(a, b) == IF b = 0 THEN a ELSE GCD(b, a % b)

\* Math.sqrt on a sum of squares of lengths, rounded down to the length unit.
RECURSIVE SqrtSearch(_, _, _)
SqrtSearch(n, lo, hi) ==
    IF lo >= hi THEN lo
    ELSE LET mid == (lo + hi + 1) \div 2
         IN IF mid * mid <= n THEN SqrtSearch(n, mid, hi)
                              ELSE SqrtSearch(n, lo, mid - 1)

Sqrt(n) == SqrtSearch(n, 0, Min(n, 4096))

\* Math.sqrt(dx * dx + dy * dy)
Distance(x1, y1, x2, y2) ==
    LET dx == x1 - x2
        dy == y1 - y2
    IN Sqrt(dx * dx + dy * dy)

\* `a || b` on numbers: 0 (and undefined, modelled as 0) is falsy.
OrDefault(a, b) == IF a = 0 THEN b ELSE a

\* Math.random() * Math.PI * 2, quantised to the values of Phases; the
\* generator is a hidden state that every call advances.
Phases == {0, 1}
RandomPhase(rnd) == rnd % Cardinality(Phases)
NextRandom(rnd) == (rnd + 1) % Cardinality(Phases)

----
\* initDots: the nested loops, x outer and y inner, pushing one dot per step.

RECURSIVE InitDotsAppendY(_, _, _, _, _)
InitDotsAppendY(acc, x, y, height, spacing) ==
    IF y < height
    THEN InitDotsAppendY(
            [dots |-> Append(acc.dots,
                             [x |-> x, y |-> y, originalX |-> x, originalY |-> y,
                              phase |-> RandomPhase(acc.random)]),
             random |-> NextRandom(acc.random)],
            x, y + spacing, height, spacing)
    ELSE acc

InitDotsRowsFrom(acc, x, height, spacing) ==
    InitDotsAppendY(acc, x, spacing \div 2, height, spacing)

RECURSIVE InitDotsLoopX(_, _, _, _, _)
InitDotsLoopX(acc, x, width, height, spacing) ==
    IF x < width
    THEN InitDotsLoopX(InitDotsRowsFrom(acc, x, height, spacing),
                       x + spacing, width, height, spacing)
    ELSE acc

\* Mutant: the columns start at 0, without the half-spacing offset.
initDotsNoOffset(width, height, spacing, rnd) ==
    InitDotsLoopX([dots |-> <<>>, random |-> rnd], 0, width, height, spacing)

\* width, height and spacing in length units; the result is the new dot list
\* and the state of the random generator after it.
initDots(width, height, spacing, rnd) ==
    InitDotsLoopX([dots |-> <<>>, random |-> rnd], spacing \div 2, width, height, spacing)

----
\* The influence functions.  `self` is the record of the instance's fields.

\* The denominator of a mouse influence: the value 1 is MouseDen.
MouseDen == maxDistance * SubPx

\* Mutant: the result is not clamped at 0.
getMouseInfluenceUnclamped(self, x, y) ==
    LET distance == Distance(x, y, self.mouse.x, self.mouse.y)
    IN MouseDen - distance

\* Math.max(0, 1 - distance / maxDistance), as a numerator over MouseDen.
getMouseInfluence(self, x, y) ==
    LET distance == Distance(x, y, self.mouse.x, self.mouse.y)
    IN Max(0, MouseDen - distance)

\* |distance - rippleRadius| is a multiple of 1 / RingScale px, where
\* rippleRadius = (age / maxAge) * rippleSpan.
RippleUnit == GCD(maxAge, rippleSpan * SubPx)
RingScale == SubPx * (maxAge \div RippleUnit)
RingWidth == rippleWidth * RingScale
\* The denominator of a ripple influence: the value 1 is RippleDen.
RippleDen == maxAge * RingWidth

\* Mutant: the difference is taken without Math.abs.
RingGapSigned(distance, age) ==
    distance * (maxAge \div RippleUnit) - age * ((rippleSpan * SubPx) \div RippleUnit)

\* Math.abs(distance - rippleRadius), in 1 / RingScale px.
RingGap(distance, age) ==
    Abs(distance * (maxAge \div RippleUnit) - age * ((rippleSpan * SubPx) \div RippleUnit))

\* Mutant: the age is compared with the pruning age instead of maxAge.
RippleContributionUntilPruned(ripple, x, y, currentTime) ==
    LET age == currentTime - ripple.time
    IN IF age < pruneAge
       THEN LET distance == Distance(x, y, ripple.x, ripple.y)
                gap == RingGap(distance, age)
            IN IF gap < RingWidth
               THEN ((maxAge - age) * ripple.intensity) * (RingWidth - gap)
               ELSE 0
       ELSE 0

\* What one ripple adds to totalInfluence (the body of the forEach callback),
\* as a numerator over RippleDen.
RippleContribution(ripple, x, y, currentTime) ==
    LET age == currentTime - ripple.time
    IN IF age < maxAge
       THEN LET distance == Distance(x, y, ripple.x, ripple.y)
                gap == RingGap(distance, age)
            IN IF gap < RingWidth
               THEN ((maxAge - age) * ripple.intensity) * (RingWidth - gap)
               ELSE 0
       ELSE 0

RECURSIVE SumContributions(_, _, _, _, _)
SumContributions(ripples, i, x, y, currentTime) ==
    IF i > Len(ripples) THEN 0
    ELSE RippleContribution(ripples[i], x, y, currentTime)
         + SumContributions(ripples, i + 1, x, y, currentTime)

\* Mutant: the sum is returned without the cap.
getRippleInfluenceUncapped(self, x, y, currentTime) ==
    SumContributions(self.ripples, 1, x, y, currentTime)

\* Math.min(totalInfluence, 2), as a numerator over RippleDen.
getRippleInfluence(self, x, y, currentTime) ==
    Min(SumContributions(self.ripples, 1, x, y, currentTime), influenceCap * RippleDen)

----
\* The state.  `this` holds the fields of the ProfileDots instance; `host`
\* holds what the page keeps for it: the canvas element and its 2D context,
\* the registered listeners, the pending animation-frame callbacks, the last
\* frame painted, window.devicePixelRatio, Date.now() and Math.random's state.

VARIABLES this, host

vars == <<this, host>>

EventNames == {"resize", "mousemove", "mousedown", "mouseup", "touchstart"}

NoPaint == [frame |-> 0, at |-> 0, cleared |-> <<0, 0>>, arcs |-> <<>>, strokes |-> <<>>]

\* The fields before the constructor has set any of them.
UnsetFields ==
    [canvas |-> FALSE, gridSpacing |-> 0, removeWaveLine |-> FALSE, time |-> 0,
     mouse |-> [x |-> 0, y |-> 0, isDown |-> FALSE],
     ripples |-> <<>>, dots |-> <<>>, dpr |-> 0]

\* Mutant: the dot list is not emptied before the grid is generated.
resizeKeepsDots(st, rect) ==
    LET displayWidth == Px(rect.width)
        displayHeight == Px(rect.height)
        made == initDots(displayWidth, displayHeight, Px(st.this.gridSpacing),
                         st.host.random)
    IN [this |-> [st.this EXCEPT !.dots = @ \o made.dots],
        host |-> [st.host EXCEPT
                    !.width = displayWidth * st.this.dpr,
                    !.height = displayHeight * st.this.dpr,
                    !.styleWidth = displayWidth,
                    !.styleHeight = displayHeight,
                    !.scale = 1 * st.this.dpr,
                    !.random = made.random]]

\* resize(): rect is the parent's bounding rectangle, in px.
resize(st, rect) ==
    LET displayWidth == Px(rect.width)
        displayHeight == Px(rect.height)
        made == initDots(displayWidth, displayHeight, Px(st.this.gridSpacing),
                         st.host.random)
    IN [this |-> [st.this EXCEPT !.dots = made.dots],
        host |-> [st.host EXCEPT
                    !.width = displayWidth * st.this.dpr,
                    !.height = displayHeight * st.this.dpr,
                    !.styleWidth = displayWidth,
                    !.styleHeight = displayHeight,
                    \* assigning canvas.width resets the context's transform
                    \* to the identity; ctx.scale then multiplies it
                    !.scale = 1 * st.this.dpr,
                    !.random = made.random]]

\* initEvents(): the five addEventListener calls.
initEvents(st) ==
    [st EXCEPT !.host.listeners = @ \cup EventNames]

\* The dot loop of animate(): what is painted for dot i.
DotArc(self, dot, currentTime) ==
    LET mouseInf == getMouseInfluence(self, dot.originalX, dot.originalY)
        rippleInf == getRippleInfluence(self, dot.originalX, dot.originalY, currentTime)
    IN [x |-> dot.originalX, y |-> dot.originalY,
        \* totalInf = mouseInf + rippleInf, as a numerator over RippleDen
        totalInf |-> mouseInf * (RippleDen \div MouseDen) + rippleInf]

\* The wave loop of animate(): the outlines stroked, in list order.
RECURSIVE WaveStrokes(_, _, _)
WaveStrokes(ripples, i, currentTime) ==
    IF i > Len(ripples) THEN <<>>
    ELSE LET ripple == ripples[i]
             age == currentTime - ripple.time
             rest == WaveStrokes(ripples, i + 1, currentTime)
         IN IF age < maxAge
            THEN <<[x |-> ripple.x, y |-> ripple.y, time |-> ripple.time,
                    \* radius = progress * 150, as a numerator over maxAge
                    radius |-> age * Px(rippleSpan),
                    \* (1 - progress) * intensity, the alpha up to its factor 0.3
                    alpha |-> (maxAge - age) * ripple.intensity]>> \o rest
            ELSE rest

\* animate(): one frame.  this.time counts in units of animationSpeed.
animate(st) ==
    IF ~st.this.canvas THEN st
    ELSE LET t == st.this
             currentTime == st.host.now
             width == st.host.width \div t.dpr
             height == st.host.height \div t.dpr
         IN [this |-> [t EXCEPT
                         !.time = @ + 1,
                         !.dots = [i \in 1..Len(t.dots) |->
                                     [t.dots[i] EXCEPT !.x = t.dots[i].originalX,
                                                       !.y = t.dots[i].originalY]]],
             host |-> [st.host EXCEPT
                         !.painted =
                            [frame |-> t.time + 1,
                             at |-> currentTime,
                             cleared |-> <<width, height>>,
                             arcs |-> [i \in 1..Len(t.dots) |->
                                         DotArc(t, t.dots[i], currentTime)],
                             strokes |-> IF ~t.removeWaveLine
                                         THEN WaveStrokes(t.ripples, 1, currentTime)
                                         ELSE <<>>],
                         \* requestAnimationFrame(() => this.animate())
                         !.rafQueue = @ + 1]]

\* Mutant: the loop is started twice.
initStartsTwice(st, rect) == animate(animate(initEvents(resize(st, rect))))

\* init()
init(st, rect) == animate(initEvents(resize(st, rect)))

\* Mutant: no early return; `this.canvas.getContext` throws on null.
ConstructorUnguarded(page, options, rect) ==
    IF ~page.element
    THEN [this |-> UnsetFields, host |-> [page EXCEPT !.threw = TRUE]]
    ELSE init([this |-> [canvas |-> TRUE,
                         gridSpacing |-> OrDefault(options.gridSpacing, defaultGridSpacing),
                         removeWaveLine |-> IF options.removeWaveLine # "undefined"
                                            THEN options.removeWaveLine = "true"
                                            ELSE FALSE,
                         time |-> 0,
                         mouse |-> [x |-> 0, y |-> 0, isDown |-> FALSE],
                         ripples |-> <<>>,
                         dots |-> <<>>,
                         dpr |-> OrDefault(page.devicePixelRatio, 1)],
               host |-> page],
              rect)

\* new ProfileDots(canvasId, options): page is the host page before the call,
\* options.gridSpacing is 0 when absent, options.removeWaveLine is "undefined"
\* when absent.
Constructor(page, options, rect) ==
    IF ~page.element
    THEN [this |-> UnsetFields, host |-> page]
    ELSE init([this |-> [canvas |-> TRUE,
                         gridSpacing |-> OrDefault(options.gridSpacing, defaultGridSpacing),
                         removeWaveLine |-> IF options.removeWaveLine # "undefined"
                                            THEN options.removeWaveLine = "true"
                                            ELSE FALSE,
                         time |-> 0,
                         mouse |-> [x |-> 0, y |-> 0, isDown |-> FALSE],
                         ripples |-> <<>>,
                         dots |-> <<>>,
                         dpr |-> OrDefault(page.devicePixelRatio, 1)],
               host |-> page],
              rect)

----
\* The event handlers registered by initEvents().  e is the event (clientX,
\* clientY in px), rect the canvas's bounding rectangle (left, top in px).

\* document 'mousemove'
onMouseMove(st, e, rect) ==
    [st EXCEPT !.this.mouse.x = Px(e.clientX - rect.left),
               !.this.mouse.y = Px(e.clientY - rect.top)]

\* this.ripples.filter(r => now - r.time < 3000)
PruneRipples(ripples, now) ==
    SelectSeq(ripples, LAMBDA r : now - r.time < pruneAge)

\* canvas 'mousedown': lag is the time between its two Date.now() calls.
onMouseDown(st, e, rect, lag) ==
    LET pushed == Append(st.this.ripples,
                         [x |-> Px(e.clientX - rect.left),
                          y |-> Px(e.clientY - rect.top),
                          time |-> st.host.now,
                          intensity |-> rippleIntensity])
        now == st.host.now + lag
    IN [st EXCEPT !.this.mouse.isDown = TRUE,
                  !.this.ripples = PruneRipples(pushed, now),
                  !.host.now = now]

\* canvas 'mouseup'
onMouseUp(st) ==
    [st EXCEPT !.this.mouse.isDown = FALSE]

\* canvas 'touchstart': touch is e.touches[0].
onTouchStart(st, touch, rect) ==
    [st EXCEPT !.this.ripples =
                  Append(@, [x |-> Px(touch.clientX - rect.left),
                             y |-> Px(touch.clientY - rect.top),
                             time |-> st.host.now,
                             intensity |-> rippleIntensity])]

----
\* The state machine.  Every action takes the sets its inputs are drawn from.

State == [this |-> this, host |-> host]

Becomes(st) ==
    /\ this' = st.this
    /\ host' = st.host

\* The page before the script runs.
Page(element, ratio, seed) ==
    [element |-> element,
     width |-> 0, height |-> 0, styleWidth |-> 0, styleHeight |-> 0,
     scale |-> 1,
     listeners |-> {},
     rafQueue |-> 0,
     painted |-> NoPaint,
     devicePixelRatio |-> ratio,
     now |-> 0,
     random |-> seed,
     threw |-> FALSE]

\* The state after `new ProfileDots(canvasId, options)`.
Constructed(elements, spacings, waveLines, ratios, rects) ==
    \E element \in elements, spacing \in spacings, waveLine \in waveLines,
       ratio \in ratios, rect \in rects, seed \in Phases :
       LET st == Constructor(Page(element, ratio, seed),
                             [gridSpacing |-> spacing, removeWaveLine |-> waveLine],
                             rect)
       IN /\ this = st.this
          /\ host = st.host

\* Date.now() moves on by one of steps (ms).
Tick(steps) ==
    \E d \in steps :
       /\ host.now + d <= MaxSeconds * 1000
       /\ host' = [host EXCEPT !.now = @ + d]
       /\ UNCHANGED this

\* The page's device pixel ratio changes (zoom, another display).
RatioChange(ratios) ==
    \E ratio \in ratios \ {host.devicePixelRatio} :
       /\ host' = [host EXCEPT !.devicePixelRatio = ratio]
       /\ UNCHANGED this

ResizeEvent(rects) ==
    /\ "resize" \in host.listeners
    /\ \E rect \in rects : Becomes(resize(State, rect))

MouseMoveEvent(events, canvasRects) ==
    /\ "mousemove" \in host.listeners
    /\ \E e \in events, rect \in canvasRects : Becomes(onMouseMove(State, e, rect))

MouseDownEvent(events, canvasRects, lags) ==
    /\ "mousedown" \in host.listeners
    /\ Len(this.ripples) < MaxRipples
    /\ \E e \in events, rect \in canvasRects, lag \in lags :
          /\ host.now + lag <= MaxSeconds * 1000
          /\ Becomes(onMouseDown(State, e, rect, lag))

MouseUpEvent ==
    /\ "mouseup" \in host.listeners
    /\ Becomes(onMouseUp(State))

TouchStartEvent(touches, canvasRects) ==
    /\ "touchstart" \in host.listeners
    /\ Len(this.ripples) < MaxRipples
    /\ \E touch \in touches, rect \in canvasRects :
          Becomes(onTouchStart(State, touch, rect))

\* The host runs one pending animation-frame callback.
Frame ==
    /\ host.rafQueue > 0
    /\ this.time <= MaxFrames
    /\ Becomes(animate([State EXCEPT !.host.rafQueue = @ - 1]))

----
\* Spec: every event and the frame loop interleaved, on a small page.

\* Parent sizes, pointer positions and the canvas origin, in px.
ParentRects == [width : {30, 45}, height : {40}]
CanvasRects == [left : {10}, top : {0}]
Moves == [clientX : {140}, clientY : {10}]
Presses == [clientX : {20}, clientY : {10}]
\* window.devicePixelRatio
DevicePixelRatios == {1, 2}
\* How far Date.now() moves between two events or within a handler, in ms.
TickMs == {1000}
HandlerLagMs == {0, 1000}

Init == Constructed(BOOLEAN, {0}, {"undefined", "true"}, DevicePixelRatios, ParentRects)

Next ==
    \/ Tick(TickMs)
    \/ RatioChange(DevicePixelRatios)
    \/ ResizeEvent(ParentRects)
    \/ MouseMoveEvent(Moves, CanvasRects)
    \/ MouseDownEvent(Presses, CanvasRects, HandlerLagMs)
    \/ MouseUpEvent
    \/ TouchStartEvent(Presses, CanvasRects)
    \/ Frame

Spec == Init /\ [][Next]_vars

----
\* SpecGrid: construction over a range of parent sizes, for three grid
\* spacings, and resizes after it.

GridSpacings == {0, 15, 6}
GridRects == [width : 1..50, height : 1..32]

RegridRects == [width : {9, 10, 30, 44}, height : {3, 31}]

InitGrid == Constructed({TRUE}, GridSpacings, {"undefined"}, {1}, GridRects)

NextGrid == ResizeEvent(RegridRects)

SpecGrid == InitGrid /\ [][NextGrid]_vars

----
\* SpecRipples: presses and touches at two places, with the clock moving in
\* half seconds.

RippleTickMs == {500, 1000}
RipplePresses == [clientX : {20, 50}, clientY : {10}]

InitRipples == Constructed({TRUE}, {0}, {"undefined"}, {1},
                           {[width |-> 45, height |-> 40]})

NextRipples ==
    \/ Tick(RippleTickMs)
    \/ MouseDownEvent(RipplePresses, CanvasRects, {0})
    \/ TouchStartEvent(RipplePresses, CanvasRects)

SpecRipples == InitRipples /\ [][NextRipples]_vars

----
\* SpecWaves: presses, touches, the clock and the frame loop, with and without
\* the ripple outlines.

InitWaves == Constructed({TRUE}, {0}, {"undefined", "true"}, {1},
                         {[width |-> 45, height |-> 40]})

NextWaves ==
    \/ Tick(TickMs)
    \/ MouseDownEvent(Presses, CanvasRects, {0})
    \/ TouchStartEvent(Presses, CanvasRects)
    \/ Frame

SpecWaves == InitWaves /\ [][NextWaves]_vars

----
\* SpecPointer: the pointer moving over and around the canvas.

PointerMoves == [clientX : {-50, 10, 40, 110, 160}, clientY : {-70, 10, 90}]

InitPointer == Constructed({TRUE}, {0}, {"undefined"}, {1},
                           {[width |-> 45, height |-> 40]})

NextPointer ==
    \/ MouseMoveEvent(PointerMoves, CanvasRects)
    \/ Frame

SpecPointer == InitPointer /\ [][NextPointer]_vars

----
\* The points and times the claims about the influence functions are asked at.

QueryPoints ==
    {<<Px(x), Px(10)>> : x \in {10, 25, 40, 85, 115, 130, 160}}
    \cup {<<Px(40), Px(50)>>, <<Px(10), Px(170)>>}

QueryTimes == {-500, 250, 1000, 1999, 2000, 2500, 3000}

\* ceil(a / b) for b > 0
CeilDiv(a, b) == 0 - ((0 - a) \div b)

DotAt(i) == <<this.dots[i].originalX, this.dots[i].originalY>>

----
\* C1 as stated: initDots(W, H) produces exactly ceil(W/S) * ceil(H/S) dots,
\* every one with 0 <= originalX < W and 0 <= originalY < H.
C1_CeilCount ==
    this.canvas =>
        LET W == host.styleWidth
            H == host.styleHeight
            S == Px(this.gridSpacing)
        IN /\ Len(this.dots) = CeilDiv(W, S) * CeilDiv(H, S)
           /\ \A i \in 1..Len(this.dots) :
                 /\ 0 <= this.dots[i].originalX /\ this.dots[i].originalX < W
                 /\ 0 <= this.dots[i].originalY /\ this.dots[i].originalY < H

\* C1 amended: initDots(W, H) produces exactly ceil(W/S - 1/2) * ceil(H/S - 1/2)
\* dots, the number of pairs i, j >= 0 with S/2 + i*S < W and S/2 + j*S < H, and
\* every dot has 0 <= originalX < W and 0 <= originalY < H.
C1_HalfOffsetCount ==
    this.canvas =>
        LET W == host.styleWidth
            H == host.styleHeight
            S == Px(this.gridSpacing)
        IN /\ Len(this.dots) = CeilDiv(2 * W - S, 2 * S) * CeilDiv(2 * H - S, 2 * S)
           /\ \A i \in 1..Len(this.dots) :
                 /\ 0 <= this.dots[i].originalX /\ this.dots[i].originalX < W
                 /\ 0 <= this.dots[i].originalY /\ this.dots[i].originalY < H

\* C1 witness: a resize has produced a grid with fewer dots than
\* ceil(W/S) * ceil(H/S), and more than one column and row.
C1_Witness ==
    /\ this.canvas
    /\ <<host.styleWidth, host.styleHeight>> # host.painted.cleared
    /\ Len(this.dots) >= 4
    /\ Len(this.dots) < CeilDiv(host.styleWidth, Px(this.gridSpacing))
                        * CeilDiv(host.styleHeight, Px(this.gridSpacing))

----
\* C5: when the id resolves to no element, the component does nothing
\* further: no listener is registered, no dot generated, no frame callback
\* scheduled, nothing drawn and no error raised, whatever happens later.
C5_MissingCanvasInert ==
    ~host.element =>
        /\ this = UnsetFields
        /\ host.listeners = {}
        /\ host.rafQueue = 0
        /\ host.painted = NoPaint
        /\ ~host.threw

\* C5 witness: no element, and the page has lived on (the clock and the
\* device pixel ratio have changed) with no handler to run.
C5_Witness ==
    /\ ~host.element
    /\ host.now >= 2000
    /\ host.devicePixelRatio = 2

----
\* C6 as stated: right after every event that changes the ripple list
\* (mousedown, touchstart), the list holds no ripple of age >= 3000 ms.
C6_NoStaleRippleAfterPress ==
    [][this'.ripples # this.ripples =>
          \A i \in 1..Len(this'.ripples) :
             host'.now - this'.ripples[i].time < pruneAge]_vars

----
\* C7: with a canvas, exactly one frame callback is pending at every moment
\* between two handlers.
C7_OneFramePending ==
    this.canvas => host.rafQueue = 1

\* C7 witness: frames have run after construction, between pointer events and
\* a resize.
C7_Witness ==
    /\ this.canvas
    /\ host.painted.frame >= 2
    /\ Len(this.ripples) >= 1
    /\ this.mouse.x # 0
    /\ host.painted.cleared # <<host.styleWidth, host.styleHeight>>

----
\* The points (S/2 + i*S, S/2 + j*S), i, j >= 0, inside [0, W) x [0, H).
GridOf(W, H, S) ==
    {pt \in {<<S \div 2 + i * S, S \div 2 + j * S>> : i \in 0..(W \div S), j \in 0..(H \div S)} :
        pt[1] < W /\ pt[2] < H}

\* C8: the dot list is exactly the grid of the last resize: one dot at
\* (S/2 + i*S, S/2 + j*S) for every i, j >= 0 with that point inside
\* [0, width) x [0, height), nothing else, and x, y equal originalX, originalY.
C8_DotsAreCurrentGrid ==
    this.canvas =>
        LET grid == GridOf(host.styleWidth, host.styleHeight, Px(this.gridSpacing))
        IN /\ {DotAt(i) : i \in 1..Len(this.dots)} = grid
           /\ Len(this.dots) = Cardinality(grid)
           /\ \A i \in 1..Len(this.dots) :
                 /\ this.dots[i].x = this.dots[i].originalX
                 /\ this.dots[i].y = this.dots[i].originalY

\* C8 witness: a frame was painted at one size, the surface was resized after
\* it to a smaller grid, and pointer events happened in between.
C8_Witness ==
    /\ this.canvas
    /\ host.painted.frame >= 2
    /\ Len(host.painted.arcs) > Len(this.dots)
    /\ Len(this.dots) >= 2
    /\ this.mouse.x # 0

----
\* C10 as stated: after every resize the backing store is the display size
\* times the current device pixel ratio, and the transform's scale is that
\* ratio.
C10_ResizeUsesCurrentRatio ==
    [][ResizeEvent(ParentRects) =>
          /\ host'.width = host'.styleWidth * host'.devicePixelRatio
          /\ host'.height = host'.styleHeight * host'.devicePixelRatio
          /\ host'.scale = host'.devicePixelRatio]_vars

----
\* The ripple list without its i-th ripple.
WithoutRipple(i) ==
    [this EXCEPT !.ripples = SubSeq(@, 1, i - 1) \o SubSeq(@, i + 1, Len(@))]

\* Query times from the moment a ripple created at t0 expires.
ExpiredTimes(t0) ==
    {t0 + 2000, t0 + 2001, t0 + 2500, t0 + 3000, t0 + 3500} \cup
    (IF host.now >= t0 + 2000 THEN {host.now} ELSE {})

\* Points at the centre of the presses and 120, 150 and 160 px from it.
WavePoints ==
    {<<Px(10), Px(10)>>, <<Px(130), Px(10)>>, <<Px(160), Px(10)>>, <<Px(10), Px(170)>>}

\* C2: a ripple created at t0 adds 0 to getRippleInfluence(x, y, t) for every
\* point and every t >= t0 + 2000, also while it is still in the list, and no
\* frame strokes it as an outline.
C2_ExpiredRippleAddsNothing ==
    /\ \A i \in 1..Len(this.ripples) :
          \A pt \in WavePoints, t \in ExpiredTimes(this.ripples[i].time) :
             /\ RippleContribution(this.ripples[i], pt[1], pt[2], t) = 0
             /\ getRippleInfluence(this, pt[1], pt[2], t)
                   = getRippleInfluence(WithoutRipple(i), pt[1], pt[2], t)
    /\ \A k \in 1..Len(host.painted.strokes) :
          host.painted.at - host.painted.strokes[k].time < maxAge

\* C2 witness: the last frame was painted while the list held an expired
\* ripple and a live one; only the live one was stroked, and a queried point
\* lies on the ring the expired one would have.
C2_Witness ==
    /\ Len(this.ripples) = 2
    /\ ~this.removeWaveLine
    /\ host.painted.at = host.now
    /\ host.now - this.ripples[1].time >= maxAge
    /\ host.now - this.ripples[2].time < maxAge
    /\ Len(host.painted.strokes) = 1
    /\ host.painted.strokes[1].time = this.ripples[2].time
    /\ \E pt \in WavePoints :
          RingGap(Distance(pt[1], pt[2], this.ripples[1].x, this.ripples[1].y),
                  host.now - this.ripples[1].time) < RingWidth

----
\* C3: after any presses and touches, getRippleInfluence is in [0, 2] at
\* every point and every query time, however many ripples overlap.
C3_RippleInfluenceInRange ==
    \A pt \in QueryPoints, t \in QueryTimes \cup {host.now} :
       LET influence == getRippleInfluence(this, pt[1], pt[2], t)
       IN influence >= 0 /\ influence <= influenceCap * RippleDen

\* C3 witness: two ripples overlap at a queried point where their sum
\* exceeds 2.
C3_Witness ==
    /\ Len(this.ripples) >= 2
    /\ \E pt \in QueryPoints :
          SumContributions(this.ripples, 1, pt[1], pt[2], host.now)
             > influenceCap * RippleDen

----
\* The value C9 gives for one ripple, (1-p) * I * (1 - |d-R|/40) with
\* p = a/2000 and R = 150 p, times ClaimedDenominator; d in length units.
ClaimedNumerator(intensity, a, d) ==
    LET gap == Abs(2000 * d - 150 * a * SubPx)
    IN IF gap < 40 * 2000 * SubPx
       THEN (2000 - a) * intensity * (40 * 2000 * SubPx - gap)
       ELSE 0

ClaimedDenominator == 2000 * 2000 * 40 * SubPx

ExactDistance(pt, ripple) ==
    LET d == Distance(pt[1], pt[2], ripple.x, ripple.y)
    IN d * d = (pt[1] - ripple.x) * (pt[1] - ripple.x)
               + (pt[2] - ripple.y) * (pt[2] - ripple.y)

\* C9: one ripple of intensity I and age a < 2000 ms, p = a/2000, R = 150 p,
\* contributes (1-p) * I * (1 - |d-R|/40) at distance d when |d-R| < 40 and 0
\* otherwise; intensity 2, age 1000 ms, d = 75 px gives exactly 1.
C9_SingleRippleFormula ==
    Len(this.ripples) = 1 =>
        LET ripple == this.ripples[1]
        IN /\ ClaimedDenominator % RippleDen = 0
           /\ \A pt \in QueryPoints, t \in QueryTimes \cup {host.now} :
                 (t >= ripple.time /\ t < ripple.time + 2000 /\ ExactDistance(pt, ripple)) =>
                    getRippleInfluence(this, pt[1], pt[2], t)
                          * (ClaimedDenominator \div RippleDen)
                       = ClaimedNumerator(ripple.intensity, t - ripple.time,
                                          Distance(pt[1], pt[2], ripple.x, ripple.y))
           /\ \A pt \in QueryPoints :
                 (ripple.intensity = 2
                    /\ Distance(pt[1], pt[2], ripple.x, ripple.y) = Px(75)
                    /\ ExactDistance(pt, ripple)) =>
                    getRippleInfluence(this, pt[1], pt[2], ripple.time + 1000) = RippleDen

\* C9 witness: one ripple of intensity 2, 1000 ms old, and a queried point
\* 75 px from its centre with influence between 0 and 2.
C9_Witness ==
    /\ Len(this.ripples) = 1
    /\ this.ripples[1].intensity = 2
    /\ host.now = this.ripples[1].time + 1000
    /\ \E pt \in QueryPoints :
          /\ Distance(pt[1], pt[2], this.ripples[1].x, this.ripples[1].y) = Px(75)
          /\ ExactDistance(pt, this.ripples[1])
          /\ getRippleInfluence(this, pt[1], pt[2], host.now) = RippleDen
    /\ \E pt \in QueryPoints :
          /\ getRippleInfluence(this, pt[1], pt[2], host.now) > 0
          /\ getRippleInfluence(this, pt[1], pt[2], host.now) < RippleDen

----
\* The square of the Euclidean distance from pt to the pointer.
DistanceSquared(pt) ==
    (pt[1] - this.mouse.x) * (pt[1] - this.mouse.x)
    + (pt[2] - this.mouse.y) * (pt[2] - this.mouse.y)

\* C4: getMouseInfluence is 1 at the pointer, 0 at every point whose
\* Euclidean distance from the pointer is >= 100 px, and the farther of two
\* points never has the larger influence.
C4_MouseInfluenceShape ==
    this.canvas =>
        /\ getMouseInfluence(this, this.mouse.x, this.mouse.y) = MouseDen
        /\ \A pt \in QueryPoints :
              DistanceSquared(pt) >= Px(100) * Px(100) =>
                 getMouseInfluence(this, pt[1], pt[2]) = 0
        /\ \A pt \in QueryPoints, qt \in QueryPoints :
              DistanceSquared(pt) <= DistanceSquared(qt) =>
                 getMouseInfluence(this, pt[1], pt[2]) >= getMouseInfluence(this, qt[1], qt[2])

\* C4 witness: the pointer has moved, and the queried points include one
\* with an influence strictly between 0 and 1 and one 100 px or more away.
C4_Witness ==
    /\ this.canvas
    /\ this.mouse.x # 0
    /\ \E pt \in QueryPoints :
          /\ getMouseInfluence(this, pt[1], pt[2]) > 0
          /\ getMouseInfluence(this, pt[1], pt[2]) < MouseDen
    /\ \E pt \in QueryPoints :
          /\ DistanceSquared(pt) >= Px(100) * Px(100)
          /\ DistanceSquared(pt) < Px(101) * Px(101)

====
